---- MODULE Spec2Model ----
(***************************************************************************)
(* A model of the financial-data CRUD service: the pydantic request        *)
(* schema (app/models/pydantic_models.py), the Tortoise row and its        *)
(* projection to_dict (app/models/financial_data.py) and the five route    *)
(* handlers (app/api/routes.py), each handler split at its awaits.         *)
(***************************************************************************)
EXTENDS Integers, Sequences, FiniteSets, TLC

(***************************************************************************)
(* Values.  Every JSON / Python value is a record [kind, val], so that     *)
(* values of different shapes can be compared.  "none" is JSON null and    *)
(* Python None; "enum" is a member of a (str, Enum) class, "str" a plain   *)
(* string, "obj" a dict (a function from keys to values), "arr" a list.    *)
(***************************************************************************)
PyNone == [kind |-> "none", val |-> "None"]
JNum(t) == [kind |-> "num", val |-> t]
JInt(n) == [kind |-> "int", val |-> n]
JStr(s) == [kind |-> "str", val |-> s]
JBool(b) == [kind |-> "bool", val |-> b]
JObj(f) == [kind |-> "obj", val |-> f]
JArr(q) == [kind |-> "arr", val |-> q]
PyEnum(s) == [kind |-> "enum", val |-> s]
PyDate(s) == [kind |-> "date", val |-> s]
\* a datetime: the reading of the clock it was taken at
PyDateTime(t) == [kind |-> "datetime", val |-> t]
\* an instance of a pydantic BaseModel / of the Tortoise model: its attributes
PyModel(f) == [kind |-> "model", val |-> f]
PyOrm(f) == [kind |-> "orm", val |-> f]
\* the content of a JSONB column
DbJson(x) == [kind |-> "jsonb", val |-> x]

EmptyDict == << >>

\* dict.get(key): the value, or None when the key is missing
DictGet(d, k) == IF k \in DOMAIN d THEN d[k] ELSE PyNone

\* the dict d restricted to the keys in ks
Restrict(d, ks) == [k \in (DOMAIN d) \cap ks |-> d[k]]

Fail == [ok |-> FALSE, v |-> PyNone]
Ok(x) == [ok |-> TRUE, v |-> x]

(***************************************************************************)
(* The enumerations of pydantic_models.py / financial_data.py.             *)
(***************************************************************************)
TermSheetStatus == {"Yes", "Partial", "No", "N/A", "Not stated in Term Sheet"}
CompositeValueType == {"number", "greater_of", "no_minimum", "no_pik"}
PercentageMultipleType == {"percentage", "no_cash_requirement", "not_stated"}
NamesListType == {"names_list", "na"}
FinancialRatioType ==
    {"first_lien", "senior_secured", "secured", "total_net", "fixed_charge",
     "interest_coverage", "no_covenant", "not_stated"}
PercentageConditionType ==
    {"with_leverage_test", "no_leverage_test", "basket_no_component", "no_basket",
     "not_stated"}

(***************************************************************************)
(* The variant classes.  A class is its Literal tag and its required       *)
(* fields, each with the name of its type.                                 *)
(***************************************************************************)
Fld(n, t) == [name |-> n, type |-> t]

GreaterOfModel ==
    <<Fld("amount", "float"), Fld("percentage", "float"), Fld("metric", "str")>>
LeverageTestModel == <<Fld("multiplier", "float"), Fld("metric", "str")>>

NumberValue == [tag |-> "number", fields |-> <<Fld("value", "float")>>]
GreaterOfValue == [tag |-> "greater_of", fields |-> <<Fld("details", "GreaterOfModel")>>]
NoMinimumValue == [tag |-> "no_minimum", fields |-> <<>>]
NoPikValue == [tag |-> "no_pik", fields |-> <<>>]

PercentageMultipleValue == [tag |-> "percentage", fields |-> <<Fld("value", "float")>>]
NoCashRequirementValue == [tag |-> "no_cash_requirement", fields |-> <<>>]
PercentageNotStatedValue == [tag |-> "not_stated", fields |-> <<>>]

NamesListValue == [tag |-> "names_list", fields |-> <<Fld("names", "List[str]")>>]
NamesListNAValue == [tag |-> "na", fields |-> <<>>]

FirstLienRatioValue == [tag |-> "first_lien", fields |-> <<Fld("ratio", "float")>>]
SeniorSecuredRatioValue == [tag |-> "senior_secured", fields |-> <<Fld("ratio", "float")>>]
SecuredRatioValue == [tag |-> "secured", fields |-> <<Fld("ratio", "float")>>]
TotalNetRatioValue == [tag |-> "total_net", fields |-> <<Fld("ratio", "float")>>]
FixedChargeRatioValue == [tag |-> "fixed_charge", fields |-> <<Fld("ratio", "float")>>]
InterestCoverageRatioValue ==
    [tag |-> "interest_coverage", fields |-> <<Fld("ratio", "float")>>]
NoCovenantValue == [tag |-> "no_covenant", fields |-> <<>>]
RatioNotStatedValue == [tag |-> "not_stated", fields |-> <<>>]

PercentageWithLeverageTestValue ==
    [tag |-> "with_leverage_test",
     fields |-> <<Fld("percentage", "float"), Fld("test", "LeverageTestModel")>>]
PercentageNoLeverageTestValue ==
    [tag |-> "no_leverage_test", fields |-> <<Fld("percentage", "float")>>]
BasketNoComponentValue == [tag |-> "basket_no_component", fields |-> <<>>]
NoBasketValue == [tag |-> "no_basket", fields |-> <<>>]
PercentageConditionNotStatedValue == [tag |-> "not_stated", fields |-> <<>>]

\* the five slots, in the order of FinancialDataModel
Slots ==
    <<"composite_value", "percentage_multiple", "names_list", "financial_ratio",
      "percentage_condition">>
SlotSet == {Slots[i] : i \in DOMAIN Slots}

\* the Union of each slot, in declaration order
SlotUnion(slot) ==
    CASE slot = "composite_value" ->
           <<NumberValue, GreaterOfValue, NoMinimumValue, NoPikValue>>
      [] slot = "percentage_multiple" ->
           <<PercentageMultipleValue, NoCashRequirementValue, PercentageNotStatedValue>>
      [] slot = "names_list" -> <<NamesListValue, NamesListNAValue>>
      [] slot = "financial_ratio" ->
           <<FirstLienRatioValue, SeniorSecuredRatioValue, SecuredRatioValue,
             TotalNetRatioValue, FixedChargeRatioValue, InterestCoverageRatioValue,
             NoCovenantValue, RatioNotStatedValue>>
      [] slot = "percentage_condition" ->
           <<PercentageWithLeverageTestValue, PercentageNoLeverageTestValue,
             BasketNoComponentValue, NoBasketValue, PercentageConditionNotStatedValue>>

(***************************************************************************)
(* Validation (pydantic).  Each Parse* returns [ok, v].                    *)
(***************************************************************************)
\* the strings float() reads as a number
NumericStrings == {"3.5"}

\* a float field: a JSON number, or a string float() can read, taken as that number
ParseFloat(x) ==
    IF x.kind = "num" THEN Ok(x)
    ELSE IF x.kind = "str" /\ x.val \in NumericStrings THEN Ok(JNum(x.val))
    ELSE Fail

\* a str field: a JSON string
ParseStr(x) == IF x.kind = "str" THEN Ok(x) ELSE Fail

\* List[str] read as a set: a name that occurred before is left out
ParseStrSet(x) ==
    IF x.kind = "arr" /\ \A i \in DOMAIN x.val : ParseStr(x.val[i]).ok
    THEN LET firsts[i \in 0..Len(x.val)] ==
                 IF i = 0 THEN <<>>
                 ELSE IF \E j \in 1..(i - 1) : x.val[j] = x.val[i]
                      THEN firsts[i - 1]
                      ELSE Append(firsts[i - 1], x.val[i])
         IN Ok(JArr(firsts[Len(x.val)]))
    ELSE Fail

\* List[str]: a JSON array whose elements are all strings, kept in order
ParseStrList(x) ==
    IF x.kind = "arr" /\ \A i \in DOMAIN x.val : ParseStr(x.val[i]).ok
    THEN Ok(x)
    ELSE Fail

ParseScalar(t, x) ==
    CASE t = "float" -> ParseFloat(x)
      [] t = "str" -> ParseStr(x)
      [] t = "List[str]" -> ParseStrList(x)

\* a nested BaseModel with scalar fields only (GreaterOfModel, LeverageTestModel):
\* a dict holding every declared field; other keys are ignored
ParseNested(fields, x) ==
    IF /\ x.kind = "obj"
       /\ \A i \in DOMAIN fields :
            /\ fields[i].name \in DOMAIN x.val
            /\ ParseScalar(fields[i].type, x.val[fields[i].name]).ok
    THEN Ok(PyModel([k \in {fields[i].name : i \in DOMAIN fields} |->
                       LET f == CHOOSE f \in {fields[i] : i \in DOMAIN fields} : f.name = k
                       IN ParseScalar(f.type, x.val[k]).v]))
    ELSE Fail

ParseField(t, x) ==
    CASE t = "GreaterOfModel" -> ParseNested(GreaterOfModel, x)
      [] t = "LeverageTestModel" -> ParseNested(LeverageTestModel, x)
      [] OTHER -> ParseScalar(t, x)

\* ParseLiteral without the comparison: any "type" is taken for the tag
ParseLiteralAny(tag, d) == Ok(PyEnum(tag))

\* type: Literal[tag] = tag  -- a given "type" must equal the tag, a missing one
\* takes the default
ParseLiteral(tag, d) ==
    IF "type" \in DOMAIN d
    THEN (IF d["type"] = JStr(tag) THEN Ok(PyEnum(tag)) ELSE Fail)
    ELSE Ok(PyEnum(tag))

\* ParseVariant with every field given a default: a missing field is not an error
FieldDefault(t) ==
    CASE t = "float" -> JNum("0")
      [] t = "str" -> JStr("")
      [] t = "List[str]" -> JArr(<<>>)
      [] t = "GreaterOfModel" ->
           PyModel([k \in {"amount", "percentage", "metric"} |->
                      IF k = "metric" THEN JStr("") ELSE JNum("0")])
      [] t = "LeverageTestModel" ->
           PyModel([k \in {"multiplier", "metric"} |->
                      IF k = "metric" THEN JStr("") ELSE JNum("0")])
ParseVariantDefaults(cls, x) ==
    IF /\ x.kind = "obj"
       /\ ParseLiteral(cls.tag, x.val).ok
       /\ \A i \in DOMAIN cls.fields :
            cls.fields[i].name \in DOMAIN x.val =>
              ParseField(cls.fields[i].type, x.val[cls.fields[i].name]).ok
    THEN Ok(PyModel(
            [k \in {"type"} \cup {cls.fields[i].name : i \in DOMAIN cls.fields} |->
               IF k = "type"
               THEN ParseLiteral(cls.tag, x.val).v
               ELSE LET f == CHOOSE f \in {cls.fields[i] : i \in DOMAIN cls.fields} :
                                f.name = k
                    IN IF k \in DOMAIN x.val
                       THEN ParseField(f.type, x.val[k]).v
                       ELSE FieldDefault(f.type)]))
    ELSE Fail

\* one variant class applied to a slot object: the model holds "type" and the
\* declared fields, nothing else (extra keys are ignored)
ParseVariant(cls, x) ==
    IF /\ x.kind = "obj"
       /\ ParseLiteral(cls.tag, x.val).ok
       /\ \A i \in DOMAIN cls.fields :
            /\ cls.fields[i].name \in DOMAIN x.val
            /\ ParseField(cls.fields[i].type, x.val[cls.fields[i].name]).ok
    THEN Ok(PyModel(
            [k \in {"type"} \cup {cls.fields[i].name : i \in DOMAIN cls.fields} |->
               IF k = "type"
               THEN ParseLiteral(cls.tag, x.val).v
               ELSE LET f == CHOOSE f \in {cls.fields[i] : i \in DOMAIN cls.fields} :
                                f.name = k
                    IN ParseField(f.type, x.val[k]).v]))
    ELSE Fail

\* Union[...]: the first member, in declaration order, that accepts the object
ParseUnion(classes, x) ==
    LET r == [i \in DOMAIN classes |-> ParseVariant(classes[i], x)] IN
    IF \E i \in DOMAIN classes : r[i].ok
    THEN r[CHOOSE i \in DOMAIN classes :
             r[i].ok /\ \A j \in DOMAIN classes : j < i => ~r[j].ok]
    ELSE Fail

\* Optional[T] = None: a missing key and null both give None
ParseOptional(d, k, parse(_)) ==
    IF k \notin DOMAIN d \/ d[k] = PyNone THEN Ok(PyNone) ELSE parse(d[k])

(***************************************************************************)
(* Slot objects, as dicts of JSON values: the inputs of the behaviours.     *)
(***************************************************************************)
Tagged(t) == "type" :> JStr(t)
Details(keys) ==
    JObj(Restrict(("amount" :> JNum("1000000")) @@ ("percentage" :> JNum("5.0"))
                  @@ ("metric" :> JStr("EBITDA")), keys))
Test(keys) ==
    JObj(Restrict(("multiplier" :> JNum("2.5")) @@ ("metric" :> JStr("EBITDA")), keys))
GreaterOfKeys == {"amount", "percentage", "metric"}
TestKeys == {"multiplier", "metric"}

\* every variant of every slot, well formed
ValidObjs(slot) ==
    CASE slot = "composite_value" ->
           {JObj(Tagged("number") @@ ("value" :> JNum("0"))),
            JObj(Tagged("greater_of") @@ ("details" :> Details(GreaterOfKeys))),
            JObj(Tagged("no_minimum")), JObj(Tagged("no_pik"))}
      [] slot = "percentage_multiple" ->
           {JObj(Tagged("percentage") @@ ("value" :> JNum("25.0"))),
            JObj(Tagged("no_cash_requirement")), JObj(Tagged("not_stated"))}
      [] slot = "names_list" ->
           {JObj(Tagged("names_list")
                 @@ ("names" :> JArr(<<JStr("Jane"), JStr("John"), JStr("Jane")>>))),
            JObj(Tagged("names_list") @@ ("names" :> JArr(<<>>))),
            JObj(Tagged("na"))}
      [] slot = "financial_ratio" ->
           {JObj(Tagged(t) @@ ("ratio" :> JNum("3.5"))) :
              t \in FinancialRatioType \ {"no_covenant", "not_stated"}}
           \cup {JObj(Tagged("no_covenant")), JObj(Tagged("not_stated"))}
      [] slot = "percentage_condition" ->
           {JObj(Tagged("with_leverage_test") @@ ("percentage" :> JNum("15.0"))
                 @@ ("test" :> Test(TestKeys))),
            JObj(Tagged("no_leverage_test") @@ ("percentage" :> JNum("15.0"))),
            JObj(Tagged("basket_no_component")), JObj(Tagged("no_basket")),
            JObj(Tagged("not_stated"))}

\* a tag outside the slot's own set: an unknown one, and one of another slot
ForeignTags(slot) ==
    CASE slot = "composite_value" -> {"invalid_type", "not_stated"}
      [] slot = "percentage_multiple" -> {"invalid_type", "na"}
      [] slot = "names_list" -> {"invalid_type", "not_stated"}
      [] slot = "financial_ratio" -> {"invalid_type", "number"}
      [] slot = "percentage_condition" -> {"invalid_type", "percentage"}

UnknownObjs(slot) ==
    {JObj(Tagged(t)) : t \in ForeignTags(slot)}
    \cup {JObj(Tagged(t) @@ ("value" :> JNum("0")) @@ ("ratio" :> JNum("3.5"))
               @@ ("percentage" :> JNum("15.0")) @@ ("names" :> JArr(<<>>))) :
            t \in ForeignTags(slot)}

\* a data-carrying variant with its tag and one required key left out
MissingObjs(slot) ==
    CASE slot = "composite_value" ->
           {JObj(Tagged("number")), JObj(Tagged("greater_of"))}
           \cup {JObj(Tagged("greater_of") @@ ("details" :> Details(GreaterOfKeys \ {k}))) :
                   k \in GreaterOfKeys}
      [] slot = "percentage_multiple" -> {JObj(Tagged("percentage"))}
      [] slot = "names_list" -> {JObj(Tagged("names_list"))}
      [] slot = "financial_ratio" ->
           {JObj(Tagged(t)) : t \in FinancialRatioType \ {"no_covenant", "not_stated"}}
      [] slot = "percentage_condition" ->
           {JObj(Tagged("no_leverage_test")),
            JObj(Tagged("with_leverage_test") @@ ("test" :> Test(TestKeys))),
            JObj(Tagged("with_leverage_test") @@ ("percentage" :> JNum("15.0")))}
           \cup {JObj(Tagged("with_leverage_test") @@ ("percentage" :> JNum("15.0"))
                      @@ ("test" :> Test(TestKeys \ {k}))) : k \in TestKeys}

\* well-formed objects that carry more than their variant asks for, or no tag
LenientObjs(slot) ==
    CASE slot = "composite_value" ->
           {JObj(Tagged("number") @@ ("value" :> JNum("0"))
                 @@ ("details" :> Details(GreaterOfKeys))),
            JObj(Tagged("no_pik") @@ ("value" :> JNum("0"))),
            JObj(EmptyDict)}
      [] slot = "percentage_multiple" -> {JObj("value" :> JNum("25.0"))}
      [] slot = "names_list" -> {JObj(Tagged("na") @@ ("names" :> JArr(<<JStr("Jane")>>)))}
      [] slot = "financial_ratio" ->
           {JObj(Tagged("no_covenant") @@ ("ratio" :> JNum("3.5"))),
            JObj("ratio" :> JNum("3.5"))}
      [] slot = "percentage_condition" ->
           {JObj(Tagged("no_leverage_test") @@ ("percentage" :> JNum("15.0"))
                 @@ ("test" :> Test(TestKeys)))}

\* a variant with its tag and its fields, one field holding a value of another
\* JSON type
WrongTypeObjs(slot) ==
    CASE slot = "composite_value" ->
           {JObj(Tagged("number") @@ ("value" :> JStr("3.5"))),
            JObj(Tagged("number") @@ ("value" :> JStr("abc"))),
            JObj(Tagged("greater_of") @@ ("details" :> JStr("EBITDA"))),
            JObj(Tagged("greater_of")
                 @@ ("details" :> JObj(("metric" :> JArr(<<>>)) @@ Details(GreaterOfKeys).val)))}
      [] slot = "percentage_multiple" ->
           {JObj(Tagged("percentage") @@ ("value" :> JArr(<<>>)))}
      [] slot = "names_list" ->
           {JObj(Tagged("names_list") @@ ("names" :> JStr("Jane"))),
            JObj(Tagged("names_list") @@ ("names" :> JArr(<<JStr("Jane"), JObj(EmptyDict)>>)))}
      [] slot = "financial_ratio" ->
           {JObj(Tagged("total_net") @@ ("ratio" :> JStr("3.5"))),
            JObj(Tagged("total_net") @@ ("ratio" :> JObj(EmptyDict)))}
      [] slot = "percentage_condition" ->
           {JObj(Tagged("with_leverage_test") @@ ("percentage" :> JNum("15.0"))
                 @@ ("test" :> JNum("2.5"))),
            JObj(Tagged("no_leverage_test") @@ ("percentage" :> JStr("abc")))}

SlotObjs(slot) ==
    ValidObjs(slot) \cup UnknownObjs(slot) \cup MissingObjs(slot) \cup LenientObjs(slot)
    \cup WrongTypeObjs(slot)


\* ParseUnion of a slot, with its value on the slot objects above kept in a table
ParsedObjs == [slot \in SlotSet |-> [x \in SlotObjs(slot) |-> ParseUnion(SlotUnion(slot), x)]]
ParseSlot(slot, x) ==
    IF x \in DOMAIN ParsedObjs[slot]
    THEN ParsedObjs[slot][x]
    ELSE ParseUnion(SlotUnion(slot), x)

\* the strings pydantic parses as a date
DateStrings == {"2025-04-10", "2025-04-11"}

ParseInt(x) == IF x.kind = "int" THEN Ok(x) ELSE Fail
ParseBool(x) == IF x.kind = "bool" THEN Ok(x) ELSE Fail
ParseDate(x) == IF x.kind = "str" /\ x.val \in DateStrings THEN Ok(PyDate(x.val)) ELSE Fail
\* a status field that takes any string
ParseStatusAny(x) == IF x.kind = "str" THEN Ok(PyEnum(x.val)) ELSE Fail

ParseStatus(x) ==
    IF x.kind = "str" /\ x.val \in TermSheetStatus THEN Ok(PyEnum(x.val)) ELSE Fail

ScalarFields == {"boolean_value", "term_sheet_status", "numeric_value", "date_value"}
ModelFields ==
    {"id", "created_at", "updated_at"} \cup ScalarFields \cup SlotSet

\* one field of FinancialDataModel parsed from the request dict d
ParseModelField(d, k) ==
    CASE k = "id" -> ParseOptional(d, k, ParseInt)
      [] k = "boolean_value" -> ParseOptional(d, k, ParseBool)
      [] k = "term_sheet_status" -> ParseOptional(d, k, ParseStatus)
      [] k = "numeric_value" -> ParseOptional(d, k, ParseFloat)
      [] k = "date_value" -> ParseOptional(d, k, ParseDate)
      [] k \in {"created_at", "updated_at"} -> ParseOptional(d, k, ParseStr)
      [] k \in SlotSet ->
           IF k \notin DOMAIN d \/ d[k] = PyNone
           THEN Ok(PyNone)
           ELSE ParseSlot(k, d[k])

\* FinancialDataModel(**d) / parse_obj(d): every field valid, or a ValidationError
FinancialDataModel(d) ==
    LET r == [k \in ModelFields |-> ParseModelField(d, k)] IN
    IF \A k \in ModelFields : r[k].ok
    THEN Ok(PyModel([k \in ModelFields |-> r[k].v]))
    ELSE Fail

(***************************************************************************)
(* The Tortoise model FinancialData (financial_data.py).                   *)
(***************************************************************************)
TypeCol(slot) ==
    CASE slot = "composite_value" -> "composite_value_type"
      [] slot = "percentage_multiple" -> "percentage_multiple_type"
      [] slot = "names_list" -> "names_list_type"
      [] slot = "financial_ratio" -> "financial_ratio_type"
      [] slot = "percentage_condition" -> "percentage_condition_type"
DataCol(slot) ==
    CASE slot = "composite_value" -> "composite_value_data"
      [] slot = "percentage_multiple" -> "percentage_multiple_data"
      [] slot = "names_list" -> "names_list_data"
      [] slot = "financial_ratio" -> "financial_ratio_data"
      [] slot = "percentage_condition" -> "percentage_condition_data"
TypeCols == {TypeCol(s) : s \in SlotSet}
DataCols == {DataCol(s) : s \in SlotSet}
EnumCols == {"term_sheet_status"} \cup TypeCols
\* the columns of table financial_data
StampCols == {"created_at", "updated_at"}
FinancialData == {"id"} \cup ScalarFields \cup TypeCols \cup DataCols \cup StampCols

\* bool(x) of the values the handlers and to_dict test
Truthy(x) ==
    CASE x.kind = "none" -> FALSE
      [] x.kind \in {"str", "enum"} -> x.val # ""
      [] x.kind = "obj" -> DOMAIN x.val # {}
      [] OTHER -> TRUE

\* Field.to_python_value: what a column value becomes on the Python object
to_python_value(col, x) ==
    IF x.kind = "none" THEN PyNone
    ELSE IF col \in EnumCols THEN PyEnum(x.val)
    ELSE IF col \in DataCols THEN (IF x.kind = "jsonb" THEN x.val ELSE x)
    ELSE x

\* Field.to_db_value: what an attribute value becomes in its column
to_db_value(col, x) ==
    IF x.kind = "none" THEN PyNone
    ELSE IF col \in EnumCols THEN JStr(x.val)
    ELSE IF col \in DataCols THEN DbJson(x)
    ELSE x

\* FinancialData(**kwargs): the attributes named are set through
\* to_python_value, every other one is None
NewFinancialData(kwargs) ==
    PyOrm([c \in FinancialData |->
             IF c \in DOMAIN kwargs THEN to_python_value(c, kwargs[c]) ELSE PyNone])

\* the row an object is written as, and the object a row is loaded as
RowOf(obj) == [c \in FinancialData |-> to_db_value(c, obj.val[c])]
ObjectOf(row) == PyOrm([c \in FinancialData |-> to_python_value(c, row[c])])

\* setattr(obj, attr, x): plain assignment, no conversion
SetAttr(obj, attr, x) == PyOrm([obj.val EXCEPT ![attr] = x])

\* DatetimeFields that both take the time at every write
StampedAnew(obj, t) ==
    SetAttr(SetAttr(obj, "created_at", PyDateTime(t)), "updated_at", PyDateTime(t))

\* what writing an object at time t does to its DatetimeFields: created_at
\* (auto_now_add) takes the time when it is still None, updated_at (auto_now)
\* takes it at every write; both are set on the object as well
Stamped(obj, t) ==
    SetAttr(SetAttr(obj, "created_at",
                    IF obj.val["created_at"] = PyNone
                    THEN PyDateTime(t)
                    ELSE obj.val["created_at"]),
            "updated_at", PyDateTime(t))

\* INSERT: the table s with a new row under the next serial id
DbInsert(s, id, obj) ==
    [i \in (DOMAIN s) \cup {id} |->
       IF i = id THEN RowOf(SetAttr(obj, "id", JInt(id))) ELSE s[i]]

\* an UPDATE that inserts the row when no row has the id
DbUpsert(s, obj) ==
    [i \in (DOMAIN s) \cup {obj.val["id"].val} |->
       IF i = obj.val["id"].val THEN RowOf(obj) ELSE s[i]]

\* UPDATE ... WHERE id = pk: every column of the row is overwritten; no row, no
\* effect and no error
DbUpdate(s, obj) ==
    [i \in DOMAIN s |-> IF i = obj.val["id"].val THEN RowOf(obj) ELSE s[i]]

\* a DELETE that removes nothing
DbDeleteNothing(s, obj) == s

\* DELETE ... WHERE id = pk
DbDelete(s, obj) == [i \in (DOMAIN s) \ {obj.val["id"].val} |-> s[i]]

\* a lookup that ignores the id when no row has it: any stored row is returned
get_or_none_any(s, id) ==
    IF DOMAIN s = {}
    THEN PyNone
    ELSE ObjectOf(s[IF id \in DOMAIN s THEN id ELSE CHOOSE i \in DOMAIN s : TRUE])

\* FinancialData.get_or_none(id=record_id)
get_or_none(s, id) == IF id \in DOMAIN s THEN ObjectOf(s[id]) ELSE PyNone

\* BaseModel.dict() of a nested model
Dict(m) == JObj(m.val)

(***************************************************************************)
(* FinancialData.to_dict.  x.value exists on an Enum member only, and      *)
(* x.get on a dict only: anything else raises AttributeError.              *)
(***************************************************************************)
HasValueAttr(x) == x.kind = "enum"
HasGet(x) == x.kind = "obj"

\* the fields to_dict reads from the payload of a slot whose tag is t
ProjectedFields(slot, t) ==
    CASE slot = "composite_value" ->
           (IF t = "number" THEN {"value"}
            ELSE IF t = "greater_of" THEN {"details"}
            ELSE {})
      [] slot = "percentage_multiple" -> (IF t = "percentage" THEN {"value"} ELSE {})
      [] slot = "names_list" -> (IF t = "names_list" THEN {"names"} ELSE {})
      [] slot = "financial_ratio" ->
           (IF t \notin {"no_covenant", "not_stated"} THEN {"ratio"} ELSE {})
      [] slot = "percentage_condition" ->
           (IF t = "with_leverage_test" THEN {"percentage", "test"}
            ELSE IF t = "no_leverage_test" THEN {"percentage"}
            ELSE {})

\* the wire object of one populated slot
to_dict_slot(self, slot) ==
    LET t == self.val[TypeCol(slot)]
        d == self.val[DataCol(slot)]
    IN JObj([k \in {"type"} \cup ProjectedFields(slot, t.val) |->
               IF k = "type" THEN JStr(t.val) ELSE DictGet(d.val, k)])

to_dict_raises(self) ==
    \/ /\ Truthy(self.val["term_sheet_status"])
       /\ ~HasValueAttr(self.val["term_sheet_status"])
    \/ \E slot \in SlotSet :
         /\ Truthy(self.val[TypeCol(slot)])
         /\ \/ ~HasValueAttr(self.val[TypeCol(slot)])
            \/ /\ ProjectedFields(slot, self.val[TypeCol(slot)].val) # {}
               /\ ~HasGet(self.val[DataCol(slot)])

\* str(x) of a datetime, and of None
Str(x) == IF x.kind = "datetime" THEN JStr(ToString(x.val)) ELSE JStr("None")

\* the dict to_dict returns: the scalars and the timestamps always, a slot only
\* when its tag is set
to_dict(self) ==
    [k \in {"id"} \cup ScalarFields \cup StampCols
           \cup {slot \in SlotSet : Truthy(self.val[TypeCol(slot)])} |->
       CASE k = "id" -> self.val["id"]
         [] k = "boolean_value" -> self.val["boolean_value"]
         [] k = "term_sheet_status" ->
              (IF Truthy(self.val["term_sheet_status"])
               THEN JStr(self.val["term_sheet_status"].val)
               ELSE PyNone)
         [] k = "numeric_value" -> self.val["numeric_value"]
         [] k = "date_value" ->
              (IF Truthy(self.val["date_value"])
               THEN JStr(self.val["date_value"].val)
               ELSE PyNone)
         [] k \in StampCols -> Str(self.val[k])
         [] OTHER -> to_dict_slot(self, k)]

(***************************************************************************)
(* create_financial_data (routes.py 17-88): the keyword arguments of       *)
(* FinancialData.create, then the slot assignments made on the created     *)
(* object before it is saved.                                              *)
(***************************************************************************)
create_kwargs(data) ==
    [k \in ScalarFields |->
       IF k = "term_sheet_status"
       THEN (IF Truthy(data.val[k]) THEN JStr(data.val[k].val) ELSE PyNone)
       ELSE data.val[k]]

\* create_composite_value storing the whole slot object, 'type' included
create_composite_value_whole(financial_data, data) ==
    LET v == data.val["composite_value"] IN
    IF Truthy(v)
    THEN SetAttr(SetAttr(financial_data, "composite_value_type", v.val["type"]),
                 "composite_value_data", Dict(v))
    ELSE financial_data

create_composite_value(financial_data, data) ==
    LET v == data.val["composite_value"] IN
    IF Truthy(v)
    THEN SetAttr(SetAttr(financial_data, "composite_value_type", v.val["type"]),
                 "composite_value_data",
                 IF v.val["type"].val = "number"
                 THEN JObj("value" :> v.val["value"])
                 ELSE IF v.val["type"].val = "greater_of"
                 THEN JObj("details" :> Dict(v.val["details"]))
                 ELSE JObj(EmptyDict))
    ELSE financial_data

\* create_percentage_multiple that leaves the payload of a marker variant unset
create_percentage_multiple_null(financial_data, data) ==
    LET v == data.val["percentage_multiple"] IN
    IF Truthy(v)
    THEN SetAttr(SetAttr(financial_data, "percentage_multiple_type", v.val["type"]),
                 "percentage_multiple_data",
                 IF v.val["type"].val = "percentage"
                 THEN JObj("value" :> v.val["value"])
                 ELSE PyNone)
    ELSE financial_data

create_percentage_multiple(financial_data, data) ==
    LET v == data.val["percentage_multiple"] IN
    IF Truthy(v)
    THEN SetAttr(SetAttr(financial_data, "percentage_multiple_type", v.val["type"]),
                 "percentage_multiple_data",
                 IF v.val["type"].val = "percentage"
                 THEN JObj("value" :> v.val["value"])
                 ELSE JObj(EmptyDict))
    ELSE financial_data

create_names_list(financial_data, data) ==
    LET v == data.val["names_list"] IN
    IF Truthy(v)
    THEN SetAttr(SetAttr(financial_data, "names_list_type", v.val["type"]),
                 "names_list_data",
                 IF v.val["type"].val = "names_list"
                 THEN JObj("names" :> v.val["names"])
                 ELSE JObj(EmptyDict))
    ELSE financial_data

\* create_financial_ratio storing the whole slot object for every tag
create_financial_ratio_whole(financial_data, data) ==
    LET v == data.val["financial_ratio"] IN
    IF Truthy(v)
    THEN SetAttr(SetAttr(financial_data, "financial_ratio_type", v.val["type"]),
                 "financial_ratio_data", Dict(v))
    ELSE financial_data

create_financial_ratio(financial_data, data) ==
    LET v == data.val["financial_ratio"] IN
    IF Truthy(v)
    THEN SetAttr(SetAttr(financial_data, "financial_ratio_type", v.val["type"]),
                 "financial_ratio_data",
                 IF v.val["type"].val \notin {"no_covenant", "not_stated"}
                 THEN JObj("ratio" :> v.val["ratio"])
                 ELSE JObj(EmptyDict))
    ELSE financial_data

create_percentage_condition(financial_data, data) ==
    LET v == data.val["percentage_condition"] IN
    IF Truthy(v)
    THEN SetAttr(SetAttr(financial_data, "percentage_condition_type", v.val["type"]),
                 "percentage_condition_data",
                 IF v.val["type"].val = "with_leverage_test"
                 THEN JObj(("percentage" :> v.val["percentage"])
                           @@ ("test" :> Dict(v.val["test"])))
                 ELSE IF v.val["type"].val = "no_leverage_test"
                 THEN JObj("percentage" :> v.val["percentage"])
                 ELSE JObj(EmptyDict))
    ELSE financial_data

\* lines 30-82, in order
create_assign(financial_data, data) ==
    create_percentage_condition(
      create_financial_ratio(
        create_names_list(
          create_percentage_multiple(
            create_composite_value(financial_data, data), data), data), data), data)

(***************************************************************************)
(* update_financial_data (routes.py 115-203): the assignments made on the  *)
(* loaded record before it is saved.                                       *)
(***************************************************************************)
\* update_scalars as a patch: a field the body leaves out keeps its stored value
update_scalars_patch(record, data) ==
    LET keep(rec, k, x) == IF x = PyNone THEN rec ELSE SetAttr(rec, k, x) IN
    keep(keep(keep(keep(record, "boolean_value", data.val["boolean_value"]),
                   "term_sheet_status",
                   IF Truthy(data.val["term_sheet_status"])
                   THEN JStr(data.val["term_sheet_status"].val)
                   ELSE PyNone),
              "numeric_value", data.val["numeric_value"]),
         "date_value", data.val["date_value"])

\* update_scalars that also assigns the id of the body
update_scalars_id(record, data) ==
    LET rec == IF data.val["id"] = PyNone THEN record
               ELSE SetAttr(record, "id", data.val["id"])
    IN SetAttr(
         SetAttr(
           SetAttr(
             SetAttr(rec, "boolean_value", data.val["boolean_value"]),
             "term_sheet_status",
             IF Truthy(data.val["term_sheet_status"])
             THEN JStr(data.val["term_sheet_status"].val)
             ELSE PyNone),
           "numeric_value", data.val["numeric_value"]),
         "date_value", data.val["date_value"])

update_scalars(record, data) ==
    SetAttr(
      SetAttr(
        SetAttr(
          SetAttr(record, "boolean_value", data.val["boolean_value"]),
          "term_sheet_status",
          IF Truthy(data.val["term_sheet_status"])
          THEN JStr(data.val["term_sheet_status"].val)
          ELSE PyNone),
        "numeric_value", data.val["numeric_value"]),
      "date_value", data.val["date_value"])

\* update_composite_value without its else branch: an absent slot keeps its value
update_composite_value_keep(record, data) ==
    IF Truthy(data.val["composite_value"])
    THEN create_composite_value(record, data)
    ELSE record

update_composite_value(record, data) ==
    LET v == data.val["composite_value"] IN
    IF Truthy(v)
    THEN SetAttr(SetAttr(record, "composite_value_type", v.val["type"]),
                 "composite_value_data",
                 IF v.val["type"].val = "number"
                 THEN JObj("value" :> v.val["value"])
                 ELSE IF v.val["type"].val = "greater_of"
                 THEN JObj("details" :> Dict(v.val["details"]))
                 ELSE JObj(EmptyDict))
    ELSE SetAttr(SetAttr(record, "composite_value_type", PyNone),
                 "composite_value_data", PyNone)

update_percentage_multiple(record, data) ==
    LET v == data.val["percentage_multiple"] IN
    IF Truthy(v)
    THEN SetAttr(SetAttr(record, "percentage_multiple_type", v.val["type"]),
                 "percentage_multiple_data",
                 IF v.val["type"].val = "percentage"
                 THEN JObj("value" :> v.val["value"])
                 ELSE JObj(EmptyDict))
    ELSE SetAttr(SetAttr(record, "percentage_multiple_type", PyNone),
                 "percentage_multiple_data", PyNone)

update_names_list(record, data) ==
    LET v == data.val["names_list"] IN
    IF Truthy(v)
    THEN SetAttr(SetAttr(record, "names_list_type", v.val["type"]),
                 "names_list_data",
                 IF v.val["type"].val = "names_list"
                 THEN JObj("names" :> v.val["names"])
                 ELSE JObj(EmptyDict))
    ELSE SetAttr(SetAttr(record, "names_list_type", PyNone),
                 "names_list_data", PyNone)

\* update_financial_ratio with one more tag taken for a marker than the create
\* handler takes
update_financial_ratio_markers(record, data) ==
    LET v == data.val["financial_ratio"] IN
    IF Truthy(v)
    THEN SetAttr(SetAttr(record, "financial_ratio_type", v.val["type"]),
                 "financial_ratio_data",
                 IF v.val["type"].val \notin {"no_covenant", "not_stated", "interest_coverage"}
                 THEN JObj("ratio" :> v.val["ratio"])
                 ELSE JObj(EmptyDict))
    ELSE SetAttr(SetAttr(record, "financial_ratio_type", PyNone),
                 "financial_ratio_data", PyNone)

update_financial_ratio(record, data) ==
    LET v == data.val["financial_ratio"] IN
    IF Truthy(v)
    THEN SetAttr(SetAttr(record, "financial_ratio_type", v.val["type"]),
                 "financial_ratio_data",
                 IF v.val["type"].val \notin {"no_covenant", "not_stated"}
                 THEN JObj("ratio" :> v.val["ratio"])
                 ELSE JObj(EmptyDict))
    ELSE SetAttr(SetAttr(record, "financial_ratio_type", PyNone),
                 "financial_ratio_data", PyNone)

update_percentage_condition(record, data) ==
    LET v == data.val["percentage_condition"] IN
    IF Truthy(v)
    THEN SetAttr(SetAttr(record, "percentage_condition_type", v.val["type"]),
                 "percentage_condition_data",
                 IF v.val["type"].val = "with_leverage_test"
                 THEN JObj(("percentage" :> v.val["percentage"])
                           @@ ("test" :> Dict(v.val["test"])))
                 ELSE IF v.val["type"].val = "no_leverage_test"
                 THEN JObj("percentage" :> v.val["percentage"])
                 ELSE JObj(EmptyDict))
    ELSE SetAttr(SetAttr(record, "percentage_condition_type", PyNone),
                 "percentage_condition_data", PyNone)

\* lines 124-197, in order
update_assign(record, data) ==
    update_percentage_condition(
      update_financial_ratio(
        update_names_list(
          update_percentage_multiple(
            update_composite_value(
              update_scalars(record, data), data), data), data), data), data)

(***************************************************************************)
(* The response.  A handler returns FinancialDataModel.parse_obj(to_dict), *)
(* and the route's response_model writes every field of that model, a      *)
(* field that is None as null.                                             *)
(***************************************************************************)
\* the JSON of a model: its fields, nested models as objects, an Enum as its value
RECURSIVE Serialize(_)
Serialize(x) ==
    CASE x.kind = "model" -> JObj([k \in DOMAIN x.val |-> Serialize(x.val[k])])
      [] x.kind = "enum" -> JStr(x.val)
      [] x.kind = "date" -> JStr(x.val)
      [] OTHER -> x

\* the outcome of `return FinancialDataModel.parse_obj(record.to_dict())`
Respond(okStatus, record) ==
    LET d == to_dict(record)
        m == FinancialDataModel(d)
    IN IF to_dict_raises(record)
       THEN [status |-> 500, err |-> "to_dict", projected |-> PyNone, body |-> PyNone]
       ELSE IF ~m.ok
       THEN [status |-> 500, err |-> "parse_obj", projected |-> JObj(d), body |-> PyNone]
       ELSE [status |-> okStatus, err |-> "", projected |-> JObj(d),
             body |-> Serialize(m.v)]

(***************************************************************************)
(* Request bodies.                                                         *)
(***************************************************************************)
\* the slot part of a body: one slot, all five (the sample of conftest.py), none
OneSlot(slot, obj) == slot :> obj
SampleSlots ==
    ("composite_value" :> JObj(Tagged("greater_of") @@ ("details" :> Details(GreaterOfKeys))))
    @@ ("percentage_multiple" :> JObj(Tagged("percentage") @@ ("value" :> JNum("25.0"))))
    @@ ("names_list" :> JObj(Tagged("names_list")
                             @@ ("names" :> JArr(<<JStr("Jane"), JStr("John")>>))))
    @@ ("financial_ratio" :> JObj(Tagged("total_net") @@ ("ratio" :> JNum("3.5"))))
    @@ ("percentage_condition" :>
          JObj(Tagged("with_leverage_test") @@ ("percentage" :> JNum("15.0"))
               @@ ("test" :> Test(TestKeys))))

\* the scalar part of a body
NoScalars == EmptyDict
SampleScalars ==
    ("boolean_value" :> JBool("true")) @@ ("term_sheet_status" :> JStr("Yes"))
    @@ ("numeric_value" :> JNum("42.5")) @@ ("date_value" :> JStr("2025-04-10"))
BadScalars == ("boolean_value" :> JBool("true")) @@ ("term_sheet_status" :> JStr("Invalid"))
\* the scalars Python takes for false: the false boolean and the zero number
FalsyScalars == ("boolean_value" :> JBool("false")) @@ ("numeric_value" :> JNum("0"))

\* the fields of a record a client may send back: an id and the timestamps
SampleIdentity ==
    ("id" :> JInt(2)) @@ ("created_at" :> JStr("2025-04-10 00:00:00"))
    @@ ("updated_at" :> JStr("2025-04-10 00:00:00"))

\* the slot object a behaviour is about
Focuses == UNION {{[slot |-> s, obj |-> o] : o \in SlotObjs(s)} : s \in SlotSet}

\* the request bodies a behaviour draws from: the focus alone, the sample with the
\* focus in place of its slot, the sample slots with falsy scalars under an id
\* and timestamps of the client's, the empty body, a body with a bad status
Bodies(focus) ==
    {JObj(NoScalars @@ OneSlot(focus.slot, focus.obj)),
     JObj(SampleScalars @@ OneSlot(focus.slot, focus.obj) @@ SampleSlots),
     JObj(SampleIdentity @@ FalsyScalars @@ SampleSlots),
     JObj(NoScalars),
     JObj(BadScalars)}

AllBodies == UNION {Bodies(f) : f \in Focuses}

\* the request body as FastAPI hands it to the handler: validated once
Validated == [b \in AllBodies |-> FinancialDataModel(b.val)]
Validate(body) == Validated[body]

(***************************************************************************)
(* Bounds.                                                                 *)
(***************************************************************************)
\* the serial ids the table hands out: to a client that pages, and to the one
\* client of a behaviour about a slot object
MaxId == 2
MaxSlotId == 1
\* the handlers that may be between two awaits at the same time
MaxHandlers == 2
\* the largest offset and limit a list request is made with
MaxPage == 2
\* the last reading of the clock
MaxClock == 2

Ids == 1..(IF MaxId > MaxSlotId THEN MaxId ELSE MaxSlotId)
Handlers == 1..MaxHandlers

(***************************************************************************)
(* State.                                                                  *)
(***************************************************************************)
VARIABLES
    store,      \* the table: id -> row
    nextId,     \* the next value of the id sequence
    hs,         \* per handler: where it is, its request and its ORM object
    last,       \* the response written by the step just taken, if any
    deleted,    \* the ids whose DELETE has answered 204
    cfg,        \* the inputs of the behaviour: the focus object, the number of
                \* concurrent handlers and of records, the list parameters,
                \* how far the clock runs
    now         \* the reading of the clock

vars == <<store, nextId, hs, last, deleted, cfg, now>>

Idle == [pc |-> "idle", id |-> 0, body |-> PyNone, rec |-> PyNone]
(***************************************************************************)
(* Routing.  A path is the sequence of its segments ("/financial_data/" is *)
(* <<"financial_data", "">>).  The router declares the five routes, and    *)
(* the application mounts the router under a prefix.                       *)
(***************************************************************************)
\* the operation a handler serves -> its HTTP method
MethodOf(op) == IF op = "LIST" THEN "GET" ELSE op

\* @router.post / get / put / delete of routes.py
RouterRoutes ==
    {[op |-> "POST", method |-> "POST", path |-> <<"financial_data", "">>],
     [op |-> "LIST", method |-> "GET", path |-> <<"financial_data", "">>],
     [op |-> "GET", method |-> "GET", path |-> <<"financial_data", "{record_id}">>],
     [op |-> "PUT", method |-> "PUT", path |-> <<"financial_data", "{record_id}">>],
     [op |-> "DELETE", method |-> "DELETE", path |-> <<"financial_data", "{record_id}">>]}

\* app.include_router(router, prefix="/api")
RouterPrefix == <<"api">>
AppRoutes == {[r EXCEPT !.path = RouterPrefix \o r.path] : r \in RouterRoutes}

\* a request path matches a route path: segment by segment, a path parameter
\* matching the segment of an id
MatchPath(route, path) ==
    /\ Len(route) = Len(path)
    /\ \A i \in DOMAIN route :
         IF route[i] = "{record_id}" THEN path[i] # "" ELSE route[i] = path[i]

\* the operations the application dispatches a request to (none: 404 Not Found)
Dispatch(method, path) ==
    {r.op : r \in {q \in AppRoutes : q.method = method /\ MatchPath(q.path, path)}}

\* the paths a client addresses an operation at: the path of the router alone,
\* and the path under the prefix
ClientPaths(op, id) ==
    {prefix \o <<"financial_data", IF op \in {"POST", "LIST"} THEN "" ELSE ToString(id)>> :
       prefix \in {<< >>, RouterPrefix}}

\* the request reaches the handler of op, and the path by which it does
Routed(op, id) == \E path \in ClientPaths(op, id) : op \in Dispatch(MethodOf(op), path)
RoutedPath(op, id) ==
    CHOOSE path \in ClientPaths(op, id) : op \in Dispatch(MethodOf(op), path)

\* a response: the request it answers (method, path; op, id, req as the handler
\* received them), the row stored under id
\* before the step, the status, what raised (err), the dict to_dict returned
\* (projected) and the JSON written (body)
NoResponse ==
    [method |-> "none", path |-> << >>, op |-> "none", id |-> 0, req |-> PyNone,
     before |-> PyNone, status |-> 0, err |-> "", projected |-> PyNone, body |-> PyNone]
Response(op, id, req, before, r) ==
    [method |-> MethodOf(op), path |-> RoutedPath(op, id), op |-> op, id |-> id,
     req |-> req, before |-> before, status |-> r.status,
     err |-> r.err, projected |-> r.projected, body |-> r.body]
\* the answer to a request that matches no route: no handler ran
NotFound(method, path, req) ==
    [method |-> method, path |-> path, op |-> "none", id |-> 0, req |-> req,
     before |-> PyNone, status |-> 404, err |-> "no_route", projected |-> PyNone,
     body |-> PyNone]
Plain(code, err) == [status |-> code, err |-> err, projected |-> PyNone, body |-> PyNone]
\* the row stored under id, None when there is none
RowAt(s, id) == IF id \in DOMAIN s THEN JObj(s[id]) ELSE PyNone

\* a handler at an await continues once the response in flight is written
At(h, pc) == last = NoResponse /\ hs[h].pc = pc

\* a handler may start when it is idle, the lowest such, and within the
\* concurrency of the behaviour
CanStart(h) ==
    /\ last = NoResponse
    /\ h <= cfg.conc
    /\ hs[h].pc = "idle"
    /\ \A g \in Handlers : g < h => hs[g].pc # "idle"

\* Query(100, ge=1, le=1000) and Query(0, ge=0)
LimitDefault == 100
LimitMin == 1
LimitMax == 1000
OffsetDefault == 0
OffsetMin == 0

\* a query parameter: the value given, or the default when it is left out
QueryParam(x, default) == IF x.kind = "none" THEN default ELSE x.val

\* query validation without the bounds of limit
ListParamsOffsetOnly(limit, offset) == QueryParam(offset, OffsetDefault) >= OffsetMin

ListParamsValid(limit, offset) ==
    /\ QueryParam(limit, LimitDefault) >= LimitMin
    /\ QueryParam(limit, LimitDefault) <= LimitMax
    /\ QueryParam(offset, OffsetDefault) >= OffsetMin

\* the orders in which the table may return its rows: the query has no ORDER BY
RowOrders(s) ==
    {q \in [1..Cardinality(DOMAIN s) -> DOMAIN s] :
       \A i, j \in DOMAIN q : i # j => q[i] # q[j]}

\* a page that ignores the offset
PageFromStart(q, offset, limit) ==
    [i \in 1..(IF Len(q) < limit THEN Len(q) ELSE limit) |-> q[i]]

\* .offset(offset).limit(limit) of the rows in order q
Page(q, offset, limit) ==
    [i \in 1..(IF Len(q) - offset < limit
               THEN (IF Len(q) - offset < 0 THEN 0 ELSE Len(q) - offset)
               ELSE limit) |-> q[offset + i]]

Limits == {PyNone, JInt(0), JInt(LimitMax + 1)} \cup {JInt(n) : n \in 1..MaxPage}
Offsets == {PyNone, JInt(0 - 1)} \cup {JInt(n) : n \in 0..MaxPage}
ListRequest(limit, offset) == JObj(("limit" :> limit) @@ ("offset" :> offset))

\* the focus of the behaviours with concurrent handlers
ConcFocus ==
    [slot |-> "composite_value", obj |-> JObj(Tagged("number") @@ ("value" :> JNum("0")))]

\* one client and any slot object; concurrent clients, all on the one record;
\* one client that creates several records and pages through them
SlotBehaviours ==
    {[focus |-> f, conc |-> 1, ids |-> MaxSlotId, limits |-> {PyNone},
      offsets |-> {PyNone}, clock |-> 0] : f \in Focuses}
ConcurrentBehaviours ==
    {[focus |-> ConcFocus, conc |-> MaxHandlers, ids |-> 1, limits |-> {PyNone},
      offsets |-> {PyNone}, clock |-> 0]}
PagingBehaviours ==
    {[focus |-> ConcFocus, conc |-> 1, ids |-> MaxId, limits |-> Limits,
      offsets |-> Offsets, clock |-> 0]}
\* one client and one record while the clock advances
AuditBehaviours ==
    {[focus |-> ConcFocus, conc |-> 1, ids |-> 1, limits |-> {PyNone},
      offsets |-> {PyNone}, clock |-> MaxClock]}

Init ==
    /\ store = EmptyDict
    /\ nextId = 1
    /\ hs = [h \in Handlers |-> Idle]
    /\ last = NoResponse
    /\ deleted = {}
    /\ cfg \in SlotBehaviours \cup ConcurrentBehaviours \cup PagingBehaviours
                \cup AuditBehaviours
    /\ now = 0

(***************************************************************************)
(* POST /financial_data/                                                   *)
(***************************************************************************)
\* the body fails validation: 422 before the handler runs
CreateRejected(h, body) ==
    /\ CanStart(h)
    /\ Routed("POST", 0)
    /\ ~Validate(body).ok
    /\ last' = Response("POST", 0, body, PyNone, Plain(422, "validation"))
    /\ UNCHANGED <<store, nextId, hs, deleted, cfg, now>>

\* lines 23-82: the row is inserted with the scalars, then the slots are set
\* on the object in memory
CreateInsert(h, body) ==
    /\ CanStart(h)
    /\ Routed("POST", 0)
    /\ Validate(body).ok
    /\ nextId <= cfg.ids
    /\ LET data == Validate(body).v
           financial_data == Stamped(SetAttr(NewFinancialData(create_kwargs(data)),
                                             "id", JInt(nextId)), now)
       IN /\ store' = DbInsert(store, nextId, financial_data)
          /\ hs' = [hs EXCEPT ![h] =
                      [pc |-> "create_save", id |-> nextId, body |-> body,
                       rec |-> create_assign(financial_data, data)]]
    /\ nextId' = nextId + 1
    /\ last' = NoResponse
    /\ UNCHANGED <<deleted, cfg, now>>

\* lines 84-88: save, then the response
CreateSave(h) ==
    /\ At(h, "create_save")
    /\ store' = DbUpdate(store, Stamped(hs[h].rec, now))
    /\ last' = Response("POST", hs[h].id, hs[h].body, RowAt(store, hs[h].id),
                     Respond(201, Stamped(hs[h].rec, now)))
    /\ hs' = [hs EXCEPT ![h] = Idle]
    /\ UNCHANGED <<nextId, deleted, cfg, now>>

\* the save raises (the store is unavailable): a server error, nothing undone
CreateSaveFail(h) ==
    /\ At(h, "create_save")
    /\ last' = Response("POST", hs[h].id, hs[h].body, RowAt(store, hs[h].id),
                     Plain(500, "store"))
    /\ hs' = [hs EXCEPT ![h] = Idle]
    /\ UNCHANGED <<store, nextId, deleted, cfg, now>>

(***************************************************************************)
(* PUT /financial_data/{record_id}                                         *)
(***************************************************************************)
\* a rejection that comes after the boolean of the body was written to the record
UpdateRejectedLate(h, id, body) ==
    /\ CanStart(h)
    /\ Routed("PUT", id)
    /\ ~Validate(body).ok
    /\ store' = [i \in DOMAIN store |->
                   IF i = id /\ "boolean_value" \in DOMAIN body.val
                   THEN [store[i] EXCEPT !["boolean_value"] = body.val["boolean_value"]]
                   ELSE store[i]]
    /\ last' = Response("PUT", id, body, RowAt(store, id), Plain(422, "validation"))
    /\ UNCHANGED <<nextId, hs, deleted, cfg, now>>

UpdateRejected(h, id, body) ==
    /\ CanStart(h)
    /\ Routed("PUT", id)
    /\ ~Validate(body).ok
    /\ last' = Response("PUT", id, body, RowAt(store, id), Plain(422, "validation"))
    /\ UNCHANGED <<store, nextId, hs, deleted, cfg, now>>

\* lines 120-122
UpdateNotFound(h, id, body) ==
    /\ CanStart(h)
    /\ Routed("PUT", id)
    /\ Validate(body).ok
    /\ ~Truthy(get_or_none(store, id))
    /\ last' = Response("PUT", id, body, RowAt(store, id), Plain(404, "not_found"))
    /\ UNCHANGED <<store, nextId, hs, deleted, cfg, now>>

\* lines 120-197: the record is loaded and every field is assigned
UpdateLookup(h, id, body) ==
    /\ CanStart(h)
    /\ Routed("PUT", id)
    /\ Validate(body).ok
    /\ Truthy(get_or_none(store, id))
    /\ LET data == Validate(body).v IN
       hs' = [hs EXCEPT ![h] =
                [pc |-> "update_save", id |-> id, body |-> body,
                 rec |-> update_assign(get_or_none(store, id), data)]]
    /\ last' = NoResponse
    /\ UNCHANGED <<store, nextId, deleted, cfg, now>>

\* lines 199-203
UpdateSave(h) ==
    /\ At(h, "update_save")
    /\ store' = DbUpdate(store, Stamped(hs[h].rec, now))
    /\ last' = Response("PUT", hs[h].id, hs[h].body, RowAt(store, hs[h].id),
                     Respond(200, Stamped(hs[h].rec, now)))
    /\ hs' = [hs EXCEPT ![h] = Idle]
    /\ UNCHANGED <<nextId, deleted, cfg, now>>

UpdateSaveFail(h) ==
    /\ At(h, "update_save")
    /\ last' = Response("PUT", hs[h].id, hs[h].body, RowAt(store, hs[h].id),
                     Plain(500, "store"))
    /\ hs' = [hs EXCEPT ![h] = Idle]
    /\ UNCHANGED <<store, nextId, deleted, cfg, now>>

(***************************************************************************)
(* GET /financial_data/{record_id}                                         *)
(***************************************************************************)
GetNotFound(h, id) ==
    /\ CanStart(h)
    /\ Routed("GET", id)
    /\ ~Truthy(get_or_none(store, id))
    /\ last' = Response("GET", id, PyNone, RowAt(store, id), Plain(404, "not_found"))
    /\ UNCHANGED <<store, nextId, hs, deleted, cfg, now>>

GetFound(h, id) ==
    /\ CanStart(h)
    /\ Routed("GET", id)
    /\ Truthy(get_or_none(store, id))
    /\ last' = Response("GET", id, PyNone, RowAt(store, id),
                     Respond(200, get_or_none(store, id)))
    /\ UNCHANGED <<store, nextId, hs, deleted, cfg, now>>

(***************************************************************************)
(* DELETE /financial_data/{record_id}                                      *)
(***************************************************************************)
DeleteNotFound(h, id) ==
    /\ CanStart(h)
    /\ Routed("DELETE", id)
    /\ ~Truthy(get_or_none(store, id))
    /\ last' = Response("DELETE", id, PyNone, RowAt(store, id), Plain(404, "not_found"))
    /\ UNCHANGED <<store, nextId, hs, deleted, cfg, now>>

DeleteLookup(h, id) ==
    /\ CanStart(h)
    /\ Routed("DELETE", id)
    /\ Truthy(get_or_none(store, id))
    /\ hs' = [hs EXCEPT ![h] =
                [pc |-> "delete_exec", id |-> id, body |-> PyNone,
                 rec |-> get_or_none(store, id)]]
    /\ last' = NoResponse
    /\ UNCHANGED <<store, nextId, deleted, cfg, now>>

\* lines 215-216
DeleteExec(h) ==
    /\ At(h, "delete_exec")
    /\ store' = DbDelete(store, hs[h].rec)
    /\ deleted' = deleted \cup {hs[h].id}
    /\ last' = Response("DELETE", hs[h].id, PyNone, RowAt(store, hs[h].id), Plain(204, ""))
    /\ hs' = [hs EXCEPT ![h] = Idle]
    /\ UNCHANGED <<nextId, cfg, now>>

(***************************************************************************)
(* GET /financial_data/?limit=&offset=                                     *)
(***************************************************************************)
ListRejected(h, limit, offset) ==
    /\ CanStart(h)
    /\ Routed("LIST", 0)
    /\ ~ListParamsValid(limit, offset)
    /\ last' = Response("LIST", 0, ListRequest(limit, offset), PyNone,
                     Plain(422, "validation"))
    /\ UNCHANGED <<store, nextId, hs, deleted, cfg, now>>

\* lines 99-100
ListAll(h, limit, offset) ==
    /\ CanStart(h)
    /\ Routed("LIST", 0)
    /\ ListParamsValid(limit, offset)
    /\ \E q \in RowOrders(store) :
         LET records == Page(q, QueryParam(offset, OffsetDefault),
                             QueryParam(limit, LimitDefault))
             rs == [i \in DOMAIN records |-> Respond(200, ObjectOf(store[records[i]]))]
         IN last' = Response("LIST", 0, ListRequest(limit, offset), PyNone,
                       IF \E i \in DOMAIN rs : rs[i].status # 200
                       THEN Plain(500, "to_dict")
                       ELSE [status |-> 200, err |-> "",
                             projected |-> JArr([i \in DOMAIN rs |-> rs[i].projected]),
                             body |-> JArr([i \in DOMAIN rs |-> rs[i].body])])
    /\ UNCHANGED <<store, nextId, hs, deleted, cfg, now>>

(***************************************************************************)
(* A request to a path the application has no route for.                   *)
(***************************************************************************)
NotRouted(h, op, body) ==
    /\ CanStart(h)
    /\ \E path \in ClientPaths(op, 0) :
         /\ Dispatch(MethodOf(op), path) = {}
         /\ last' = NotFound(MethodOf(op), path, body)
    /\ UNCHANGED <<store, nextId, hs, deleted, cfg, now>>

\* the clock advances
Tick ==
    /\ last = NoResponse
    /\ now < cfg.clock
    /\ now' = now + 1
    /\ UNCHANGED <<store, nextId, hs, last, deleted, cfg>>

\* the response is written to the client
Deliver ==
    /\ last # NoResponse
    /\ last' = NoResponse
    /\ UNCHANGED <<store, nextId, hs, deleted, cfg, now>>

(***************************************************************************)
(* The specification.                                                      *)
(***************************************************************************)
Next ==
    \/ \E h \in Handlers : \E body \in Bodies(cfg.focus) : CreateRejected(h, body)
    \/ \E h \in Handlers : \E body \in Bodies(cfg.focus) : CreateInsert(h, body)
    \/ \E h \in Handlers : CreateSave(h)
    \/ \E h \in Handlers : CreateSaveFail(h)
    \/ \E h \in Handlers : \E id \in 1..cfg.ids : \E body \in Bodies(cfg.focus) :
         UpdateRejected(h, id, body)
    \/ \E h \in Handlers : \E id \in 1..cfg.ids : \E body \in Bodies(cfg.focus) :
         UpdateNotFound(h, id, body)
    \/ \E h \in Handlers : \E id \in 1..cfg.ids : \E body \in Bodies(cfg.focus) :
         UpdateLookup(h, id, body)
    \/ \E h \in Handlers : UpdateSave(h)
    \/ \E h \in Handlers : UpdateSaveFail(h)
    \/ \E h \in Handlers : \E id \in 1..cfg.ids : GetNotFound(h, id)
    \/ \E h \in Handlers : \E id \in 1..cfg.ids : GetFound(h, id)
    \/ \E h \in Handlers : \E id \in 1..cfg.ids : DeleteNotFound(h, id)
    \/ \E h \in Handlers : \E id \in 1..cfg.ids : DeleteLookup(h, id)
    \/ \E h \in Handlers : DeleteExec(h)
    \/ \E h \in Handlers : \E limit \in cfg.limits : \E offset \in cfg.offsets :
         ListRejected(h, limit, offset)
    \/ \E h \in Handlers : \E limit \in cfg.limits : \E offset \in cfg.offsets :
         ListAll(h, limit, offset)
    \/ \E h \in Handlers : \E body \in {JObj(NoScalars), JObj(BadScalars)} :
         NotRouted(h, "POST", body)
    \/ \E h \in Handlers : NotRouted(h, "LIST", PyNone)
    \/ Tick
    \/ Deliver

Spec == Init /\ [][Next]_vars

(***************************************************************************)
(* Vocabulary of the properties: what a slot's variant set is and which    *)
(* fields a tag defines, read off the enums and the variant classes.       *)
(***************************************************************************)
VariantSet(slot) ==
    CASE slot = "composite_value" -> CompositeValueType
      [] slot = "percentage_multiple" -> PercentageMultipleType
      [] slot = "names_list" -> NamesListType
      [] slot = "financial_ratio" -> FinancialRatioType
      [] slot = "percentage_condition" -> PercentageConditionType

\* the variant class of tag t in a slot
VariantOf(slot, t) ==
    LET u == SlotUnion(slot) IN u[CHOOSE i \in DOMAIN u : u[i].tag = t]
FieldNames(fields) == {fields[i].name : i \in DOMAIN fields}
\* the fields tag t defines, and the keys of a nested field (none for a plain one)
TagFields(slot, t) == FieldNames(VariantOf(slot, t).fields)
NestedKeys(slot, t, f) ==
    LET fs == VariantOf(slot, t).fields
        ty == fs[CHOOSE i \in DOMAIN fs : fs[i].name = f].type
    IN CASE ty = "GreaterOfModel" -> FieldNames(GreaterOfModel)
         [] ty = "LeverageTestModel" -> FieldNames(LeverageTestModel)
         [] OTHER -> {}

\* obj carries a tag of the slot's variant set
HasOwnTag(slot, obj) ==
    /\ obj.kind = "obj"
    /\ "type" \in DOMAIN obj.val
    /\ obj.val["type"].kind = "str"
    /\ obj.val["type"].val \in VariantSet(slot)

\* a field the tag of obj requires is missing, at the top or in a nested object
LacksField(slot, obj) ==
    LET t == obj.val["type"].val IN
    \E f \in TagFields(slot, t) :
      \/ f \notin DOMAIN obj.val
      \/ /\ NestedKeys(slot, t, f) # {}
         /\ obj.val[f].kind = "obj"
         /\ ~(NestedKeys(slot, t, f) \subseteq DOMAIN obj.val[f].val)

\* x is a JSON value of the type a field declares
RECURSIVE OfType(_, _)
OfType(ty, x) ==
    CASE ty = "float" -> x.kind = "num"
      [] ty = "str" -> x.kind = "str"
      [] ty = "List[str]" -> x.kind = "arr" /\ \A i \in DOMAIN x.val : x.val[i].kind = "str"
      [] ty = "GreaterOfModel" ->
           /\ x.kind = "obj"
           /\ \A i \in DOMAIN GreaterOfModel :
                GreaterOfModel[i].name \in DOMAIN x.val =>
                  OfType(GreaterOfModel[i].type, x.val[GreaterOfModel[i].name])
      [] ty = "LeverageTestModel" ->
           /\ x.kind = "obj"
           /\ \A i \in DOMAIN LeverageTestModel :
                LeverageTestModel[i].name \in DOMAIN x.val =>
                  OfType(LeverageTestModel[i].type, x.val[LeverageTestModel[i].name])

\* a field of the tag of obj holds a value of another type than the field's
WrongType(slot, obj) ==
    LET fs == VariantOf(slot, obj.val["type"].val).fields IN
    \E i \in DOMAIN fs :
      fs[i].name \in DOMAIN obj.val /\ ~OfType(fs[i].type, obj.val[fs[i].name])

\* a valid slot object: a tag of the slot and every field the tag requires, each
\* of its type
IsValidObj(slot, obj) ==
    HasOwnTag(slot, obj) /\ ~LacksField(slot, obj) /\ ~WrongType(slot, obj)

\* the part of a valid slot object its tag defines: the payload, and the wire
\* object ('type' plus the payload)
DefinedPayload(slot, obj) ==
    LET t == obj.val["type"].val IN
    JObj([f \in TagFields(slot, t) |->
            IF NestedKeys(slot, t, f) # {}
            THEN JObj(Restrict(obj.val[f].val, NestedKeys(slot, t, f)))
            ELSE obj.val[f]])
Defined(slot, obj) ==
    JObj(("type" :> obj.val["type"]) @@ DefinedPayload(slot, obj).val)

\* the slots a request body carries, and the object it carries for one
BodySlots(req) ==
    IF req.kind = "obj"
    THEN {slot \in SlotSet : slot \in DOMAIN req.val /\ req.val[slot] # PyNone}
    ELSE {}

\* the handler of the last response ran through its save
Saved(r) == r.op \in {"POST", "PUT"} /\ r.err \notin {"validation", "not_found", "store"}

\* a slot of a stored row is unset / holds the tag and payload of obj
SlotUnset(row, slot) == row[TypeCol(slot)] = PyNone /\ row[DataCol(slot)] = PyNone
SlotHolds(row, slot, obj) ==
    /\ row[TypeCol(slot)] = obj.val["type"]
    /\ row[DataCol(slot)] = DbJson(DefinedPayload(slot, obj))

(***************************************************************************)
(* C1.  Round-trip law: whenever the create or the update handler has      *)
(* ingested a body, to_dict of the record yields, for every valid slot     *)
(* object of the body, an object whose keys are exactly 'type' plus the    *)
(* fields the tag defines, each with the value posted.                     *)
(***************************************************************************)
C1_RoundTrip ==
    Saved(last) =>
      \A slot \in BodySlots(last.req) :
        IsValidObj(slot, last.req.val[slot]) =>
          /\ last.projected.kind = "obj"
          /\ slot \in DOMAIN last.projected.val
          /\ last.projected.val[slot] = Defined(slot, last.req.val[slot])

(***************************************************************************)
(* C2.  Update replaces a slot wholesale: after a PUT whose body carries a *)
(* slot, the stored tag and payload of the slot and the slot of the        *)
(* response are exactly those of the body.                                 *)
(***************************************************************************)
C2_UpdateReplaces ==
    (Saved(last) /\ last.op = "PUT") =>
      \A slot \in BodySlots(last.req) :
        IsValidObj(slot, last.req.val[slot]) =>
          /\ last.id \in DOMAIN store =>
               SlotHolds(store[last.id], slot, last.req.val[slot])
          /\ last.status = 200
          /\ last.body.val[slot] = Defined(slot, last.req.val[slot])

(***************************************************************************)
(* C3.  A slot key absent from a PUT body clears the slot: once the PUT    *)
(* has saved, the stored tag and the stored payload of the slot are both   *)
(* null whatever they held before, whereas a marker variant in the body    *)
(* is stored as its tag with an empty payload.                             *)
(***************************************************************************)
C3_AbsentSlotCleared ==
    (Saved(last) /\ last.op = "PUT" /\ last.id \in DOMAIN store) =>
      \A slot \in SlotSet :
        /\ slot \notin BodySlots(last.req) => SlotUnset(store[last.id], slot)
        /\ (/\ slot \in BodySlots(last.req)
            /\ IsValidObj(slot, last.req.val[slot])
            /\ TagFields(slot, last.req.val[slot].val["type"].val) = {}) =>
             /\ store[last.id][TypeCol(slot)] = last.req.val[slot].val["type"]
             /\ store[last.id][DataCol(slot)] = DbJson(JObj(EmptyDict))
             /\ ~SlotUnset(store[last.id], slot)

\* a PUT without the slot has cleared a slot that was populated before
C3_Witness ==
    /\ Saved(last) /\ last.op = "PUT" /\ last.status = 200
    /\ last.id \in DOMAIN store
    /\ \E slot \in SlotSet \ BodySlots(last.req) :
         /\ last.before.kind = "obj"
         /\ last.before.val[TypeCol(slot)] # PyNone
         /\ SlotUnset(store[last.id], slot)

(***************************************************************************)
(* C4.  A record whose slot is unset is returned by POST, PUT, GET and     *)
(* list with the slot's key absent from the response object.               *)
(***************************************************************************)
C4_UnsetSlotAbsent ==
    /\ (/\ last.op \in {"POST", "PUT", "GET"}
        /\ last.status \in {200, 201}
        /\ last.id \in DOMAIN store) =>
         \A slot \in SlotSet :
           SlotUnset(store[last.id], slot) => slot \notin DOMAIN last.body.val
    /\ (last.op = "LIST" /\ last.status = 200) =>
         \A i \in DOMAIN last.body.val :
           \A slot \in SlotSet :
             SlotUnset(store[last.body.val[i].val["id"].val], slot) =>
               slot \notin DOMAIN last.body.val[i].val

(***************************************************************************)
(* C5.  UnknownVariant: a POST or PUT one of whose slot objects carries a  *)
(* 'type' that is not in that slot's own variant set is answered 422,      *)
(* also when the tag is valid for a different slot.                        *)
(***************************************************************************)
ForeignTagged(slot, obj) ==
    /\ obj.kind = "obj"
    /\ "type" \in DOMAIN obj.val
    /\ obj.val["type"] \notin {JStr(t) : t \in VariantSet(slot)}

C5_UnknownVariant ==
    (/\ last.op \in {"POST", "PUT"}
     /\ \E slot \in BodySlots(last.req) : ForeignTagged(slot, last.req.val[slot])) =>
      last.status = 422

\* a tag of another slot's variant set has been rejected
C5_Witness ==
    /\ last.op \in {"POST", "PUT"}
    /\ last.status = 422
    /\ \E slot \in BodySlots(last.req) :
         /\ ForeignTagged(slot, last.req.val[slot])
         /\ \E other \in SlotSet \ {slot} :
              last.req.val[slot].val["type"].val \in VariantSet(other)

(***************************************************************************)
(* C6.  MissingField: a POST or PUT one of whose slot objects has a tag of *)
(* its slot but lacks a field the tag requires, at the top or inside the   *)
(* nested 'details' / 'test' object, is answered 422.                      *)
(***************************************************************************)
C6_MissingField ==
    (/\ last.op \in {"POST", "PUT"}
     /\ \E slot \in BodySlots(last.req) :
          /\ HasOwnTag(slot, last.req.val[slot])
          /\ LacksField(slot, last.req.val[slot])) =>
      last.status = 422

\* a nested object with one key missing has been rejected
C6_Witness ==
    /\ last.op \in {"POST", "PUT"}
    /\ last.status = 422
    /\ \E slot \in BodySlots(last.req) :
         LET obj == last.req.val[slot] IN
         /\ HasOwnTag(slot, obj)
         /\ \E f \in TagFields(slot, obj.val["type"].val) \cap DOMAIN obj.val :
              /\ NestedKeys(slot, obj.val["type"].val, f) # {}
              /\ ~(NestedKeys(slot, obj.val["type"].val, f) \subseteq DOMAIN obj.val[f].val)

(***************************************************************************)
(* C7.  NotFound.  A request on an id that is not in the store is answered *)
(* in one step; AnswersAbsent(id) is that step.                            *)
(***************************************************************************)
AnswersAbsent(id) ==
    /\ id \notin DOMAIN store
    /\ last = NoResponse
    /\ hs' = hs
    /\ last'.op \in {"GET", "PUT", "DELETE"}
    /\ last'.id = id

\* C7 as stated: GET, PUT and DELETE on an id that is not in the store each
\* respond 404 and leave the stored records unchanged
C7_NotFound ==
    [][\A id \in Ids : AnswersAbsent(id) => (last'.status = 404 /\ store' = store)]_vars

\* C7 amended: GET and DELETE on an id that is not in the store, and PUT on such
\* an id with a body that passes validation, respond 404; PUT with a body that
\* fails validation responds 422; in each case the stored records are unchanged
C7_NotFoundValidBody ==
    [][\A id \in Ids :
         AnswersAbsent(id) =>
           /\ store' = store
           /\ IF last'.op = "PUT" /\ ~Validate(last'.req).ok
              THEN last'.status = 422
              ELSE last'.status = 404]_vars

\* a PUT with a valid body on an absent id has been answered 404
C7_Witness ==
    /\ last.op = "PUT"
    /\ last.status = 404
    /\ last.id \notin DOMAIN store
    /\ BodySlots(last.req) # {}

(***************************************************************************)
(* C8.  After DELETE of an existing id has responded 204, a GET and a      *)
(* further DELETE of that id respond 404 (neither finds the record), and   *)
(* the DELETE that responds 204 leaves every other stored record unchanged.*)
(***************************************************************************)
C8_DeleteThenNotFound ==
    [][/\ \A id \in deleted :
            /\ (/\ last = NoResponse
                /\ hs' = hs
                /\ last'.op \in {"GET", "DELETE"}
                /\ last'.id = id) => last'.status = 404
            /\ \A h \in Handlers :
                 (hs[h].pc = "idle" /\ hs'[h].pc = "delete_exec") => hs'[h].id # id
       /\ (last = NoResponse /\ last'.op = "DELETE" /\ last'.status = 204) =>
            /\ last'.id \notin DOMAIN store'
            /\ \A i \in Ids \ {last'.id} : RowAt(store', i) = RowAt(store, i)]_vars

\* a GET of a deleted id has been answered 404 while another record is stored
C8_Witness ==
    /\ last.op = "GET"
    /\ last.status = 404
    /\ last.id \in deleted
    /\ DOMAIN store # {}

(***************************************************************************)
(* C9.  Store invariant: each populated slot of each stored record has a   *)
(* tag in the slot's variant set and a payload whose keys are exactly the  *)
(* fields the tag requires (none for a marker variant), nested objects     *)
(* included.                                                               *)
(***************************************************************************)
SlotWellFormed(row, slot) ==
    LET t == row[TypeCol(slot)]
        d == row[DataCol(slot)]
    IN /\ t.kind = "str"
       /\ t.val \in VariantSet(slot)
       /\ d.kind = "jsonb"
       /\ d.val.kind = "obj"
       /\ DOMAIN d.val.val = TagFields(slot, t.val)
       /\ \A f \in TagFields(slot, t.val) :
            NestedKeys(slot, t.val, f) # {} =>
              /\ d.val.val[f].kind = "obj"
              /\ DOMAIN d.val.val[f].val = NestedKeys(slot, t.val, f)

C9_StoreInvariant ==
    \A id \in DOMAIN store :
      \A slot \in SlotSet :
        store[id][TypeCol(slot)] # PyNone => SlotWellFormed(store[id], slot)

\* a data-carrying variant with a nested object and a marker variant are stored
C9_Witness ==
    /\ \E id \in DOMAIN store :
         \E slot \in SlotSet :
           /\ store[id][TypeCol(slot)] # PyNone
           /\ \E f \in TagFields(slot, store[id][TypeCol(slot)].val) :
                NestedKeys(slot, store[id][TypeCol(slot)].val, f) # {}
    /\ \E id \in DOMAIN store :
         \E slot \in SlotSet :
           /\ store[id][TypeCol(slot)] # PyNone
           /\ TagFields(slot, store[id][TypeCol(slot)].val) = {}

(***************************************************************************)
(* C10.  A POST is all-or-nothing: while its handler runs, and after its   *)
(* save has failed, there is no stored record of the request that lacks a  *)
(* slot the body carries.                                                  *)
(***************************************************************************)
C10_CreateAllOrNothing ==
    /\ \A h \in Handlers :
         (hs[h].pc = "create_save" /\ hs[h].id \in DOMAIN store) =>
           \A slot \in BodySlots(hs[h].body) : ~SlotUnset(store[hs[h].id], slot)
    /\ (last.op = "POST" /\ last.err = "store" /\ last.id \in DOMAIN store) =>
         \A slot \in BodySlots(last.req) : ~SlotUnset(store[last.id], slot)

(***************************************************************************)
(* C11.  Last-writer-wins at row level.  A PUT's save is the last write of *)
(* its record at the moment it completes, so when two PUTs to the same id  *)
(* have both completed the last write is the save that ran last: after a   *)
(* PUT's save the stored record equals that PUT's body in all four scalars *)
(* and all five slots, whatever another PUT that looked the record up in   *)
(* between has read or is about to write.                                  *)
(***************************************************************************)
\* the column a scalar of the body is stored as
ExpectedScalar(req, k) ==
    IF k \notin DOMAIN req.val \/ req.val[k] = PyNone
    THEN PyNone
    ELSE IF k = "date_value" THEN PyDate(req.val[k].val) ELSE req.val[k]

\* the row holds the body: its scalars, its slots, and no other slot
RowIsBody(row, req) ==
    /\ \A k \in ScalarFields : row[k] = ExpectedScalar(req, k)
    /\ \A slot \in SlotSet :
         IF slot \in BodySlots(req)
         THEN IsValidObj(slot, req.val[slot]) => SlotHolds(row, slot, req.val[slot])
         ELSE SlotUnset(row, slot)

C11_LastWriterWins ==
    (Saved(last) /\ last.op = "PUT" /\ last.id \in DOMAIN store) =>
      RowIsBody(store[last.id], last.req)

\* a PUT has saved over the record another PUT with a different body has loaded
\* and not yet saved
C11_Witness ==
    /\ Saved(last) /\ last.op = "PUT" /\ last.id \in DOMAIN store
    /\ RowIsBody(store[last.id], last.req)
    /\ \E h \in Handlers :
         /\ hs[h].pc = "update_save"
         /\ hs[h].id = last.id
         /\ ~RowIsBody(store[last.id], hs[h].body)
    /\ last.before.kind = "obj"
    /\ ~RowIsBody(last.before.val, last.req)

(***************************************************************************)
(* C12.  Delete is irreversible: once a DELETE of an id has responded 204, *)
(* the id is never stored again, neither by a PUT that looked the record   *)
(* up before the delete and saves after it nor by a later POST, and a GET  *)
(* of the id never returns a record.                                       *)
(***************************************************************************)
C12_DeleteIrreversible ==
    /\ \A id \in deleted : id \notin DOMAIN store
    /\ (last.op = "GET" /\ last.id \in deleted) => last.status = 404

\* a PUT that had looked the record up has saved after the DELETE answered, and
\* the record is still gone
C12_Witness ==
    /\ Saved(last) /\ last.op = "PUT"
    /\ last.id \in deleted
    /\ last.id \notin DOMAIN store

(***************************************************************************)
(* C13.  Pagination size: with N stored records, a list request with       *)
(* offset o >= 0 and limit l in [1, 1000] is answered with exactly         *)
(* min(l, max(0, N - o)) records, each a distinct stored record.           *)
(***************************************************************************)
Min(a, b) == IF a < b THEN a ELSE b
Max(a, b) == IF a < b THEN b ELSE a
\* the limit and offset of a list request, the defaults when they are left out
LimitOf(req) == IF req.val["limit"] = PyNone THEN LimitDefault ELSE req.val["limit"].val
OffsetOf(req) == IF req.val["offset"] = PyNone THEN OffsetDefault ELSE req.val["offset"].val
\* the ids of the records of a list response, in the order returned
ListedIds(r) == [i \in DOMAIN r.body.val |-> r.body.val[i].val["id"].val]

C13_PaginationSize ==
    (/\ last.op = "LIST"
     /\ OffsetOf(last.req) >= 0
     /\ LimitOf(last.req) >= 1
     /\ LimitOf(last.req) <= 1000) =>
      /\ last.status = 200
      /\ Len(last.body.val) =
           Min(LimitOf(last.req),
               Max(0, Cardinality(DOMAIN store) - OffsetOf(last.req)))
      /\ \A i \in DOMAIN last.body.val :
           /\ ListedIds(last)[i] \in DOMAIN store
           /\ \A j \in DOMAIN last.body.val : i # j => ListedIds(last)[i] # ListedIds(last)[j]

\* a page cut short by the end of the table: an offset past the first record and
\* fewer records left than the limit asks for
C13_Witness ==
    /\ last.op = "LIST" /\ last.status = 200
    /\ last.req.val["offset"] # PyNone /\ OffsetOf(last.req) > 0
    /\ last.req.val["limit"] # PyNone
    /\ Len(last.body.val) > 0
    /\ Len(last.body.val) < LimitOf(last.req)

(***************************************************************************)
(* C14.  List order: a list request returns the records in insertion       *)
(* order (ascending id), so its answer is the contiguous slice             *)
(* [offset, offset + limit) of that order, also after earlier records      *)
(* have been updated or deleted.                                           *)
(***************************************************************************)
\* the stored ids in the order the records were created
InsertionOrder(s) ==
    CHOOSE q \in RowOrders(s) : \A i, j \in DOMAIN q : i < j => q[i] < q[j]

C14_ListOrder ==
    (last.op = "LIST" /\ last.status = 200) =>
      ListedIds(last) = Page(InsertionOrder(store), OffsetOf(last.req), LimitOf(last.req))

(***************************************************************************)
(* C15.  Identity: every stored record carries the id it is stored under   *)
(* (so ids are pairwise distinct), no step changes the id of a record, and *)
(* an 'id' in a POST or PUT body is ignored: a POST or PUT that saved      *)
(* leaves every record other than the one at its own id untouched, that    *)
(* record keeps the path id, and the object returned carries it.           *)
(***************************************************************************)
\* the step answers a POST or PUT that saved
AnswersSave == last = NoResponse /\ last' # NoResponse /\ Saved(last')

C15_Identity ==
    [][/\ \A id \in DOMAIN store' : store'[id]["id"] = JInt(id)
       /\ \A id \in (DOMAIN store) \cap (DOMAIN store') : store'[id]["id"] = store[id]["id"]
       /\ AnswersSave =>
            /\ \A other \in (DOMAIN store) \ {last'.id} :
                 other \in DOMAIN store' /\ store'[other] = store[other]
            /\ last'.status \in {200, 201} => last'.body.val["id"] = JInt(last'.id)]_vars

\* a PUT to record 1 with the id of the stored record 2 in its body has saved
C15_Witness ==
    /\ Saved(last) /\ last.op = "PUT" /\ last.status = 200
    /\ "id" \in DOMAIN last.req.val
    /\ last.req.val["id"] # PyNone
    /\ last.req.val["id"].val # last.id
    /\ last.req.val["id"].val \in DOMAIN store
    /\ last.id \in DOMAIN store
    /\ store[last.id] # last.before.val

(***************************************************************************)
(* C16.  Audit timestamps: created_at is the time of the record's creation *)
(* and no later step changes it; updated_at is the time of the last POST   *)
(* or PUT that saved the record, so it never decreases and is never before *)
(* created_at; both are times of the server's clock, never the values a    *)
(* request body supplies.                                                  *)
(***************************************************************************)
C16_AuditTimestamps ==
    [][/\ \A id \in DOMAIN store' :
            /\ store'[id]["created_at"].kind = "datetime"
            /\ store'[id]["updated_at"].kind = "datetime"
            /\ store'[id]["updated_at"].val >= store'[id]["created_at"].val
       /\ \A id \in (DOMAIN store') \ (DOMAIN store) :
            store'[id]["created_at"] = PyDateTime(now)
       /\ \A id \in (DOMAIN store) \cap (DOMAIN store') :
            /\ store'[id]["created_at"] = store[id]["created_at"]
            /\ store'[id]["updated_at"].val >= store[id]["updated_at"].val
       /\ (AnswersSave /\ last'.id \in DOMAIN store') =>
            store'[last'.id]["updated_at"] = PyDateTime(now)]_vars

\* a PUT whose body supplies timestamps has saved a record created earlier
C16_Witness ==
    /\ Saved(last) /\ last.op = "PUT" /\ last.status = 200
    /\ "created_at" \in DOMAIN last.req.val
    /\ last.req.val["created_at"] # PyNone
    /\ last.id \in DOMAIN store
    /\ store[last.id]["updated_at"] = PyDateTime(now)
    /\ store[last.id]["created_at"].val < now
    /\ last.before.val["updated_at"].val < now

(***************************************************************************)
(* C17.  Extra input fields are dropped silently: a POST or PUT whose slot *)
(* object has a tag of the slot, the fields the tag requires and further   *)
(* keys is not rejected; the payload stored for the slot holds exactly the *)
(* fields the tag defines, and the slot of the object returned holds       *)
(* exactly 'type' and those fields.                                        *)
(***************************************************************************)
\* a valid slot object with keys its tag does not define
HasExtraKeys(slot, obj) ==
    /\ IsValidObj(slot, obj)
    /\ DOMAIN obj.val # {"type"} \cup TagFields(slot, obj.val["type"].val)

C17_ExtraFieldsDropped ==
    last.op \in {"POST", "PUT"} =>
      \A slot \in BodySlots(last.req) :
        (/\ HasExtraKeys(slot, last.req.val[slot])
         /\ \A other \in BodySlots(last.req) : ~LacksField(other, last.req.val[other])
                                               /\ HasOwnTag(other, last.req.val[other])) =>
          /\ last.err # "validation"
          /\ (last.op = "POST" /\ last.err # "store") => last.status = 201
          /\ (Saved(last) /\ last.id \in DOMAIN store) =>
               SlotHolds(store[last.id], slot, last.req.val[slot])
          /\ last.status \in {200, 201} =>
               last.body.val[slot] = Defined(slot, last.req.val[slot])

\* a slot object with extra keys has been stored and returned
C17_Witness ==
    /\ Saved(last) /\ last.status \in {200, 201}
    /\ last.id \in DOMAIN store
    /\ \E slot \in BodySlots(last.req) :
         /\ HasExtraKeys(slot, last.req.val[slot])
         /\ TagFields(slot, last.req.val[slot].val["type"].val) = {}
         /\ store[last.id][DataCol(slot)] = DbJson(JObj(EmptyDict))

(***************************************************************************)
(* C18.  Names-list variant: the sequence of names a POST or PUT stores    *)
(* and returns, and the sequence a GET returns for the stored record, is   *)
(* the posted sequence element for element: same order, same duplicates,   *)
(* same length, the empty sequence included.                               *)
(***************************************************************************)
\* the body carries a names-list object with its names
PostsNames(req) ==
    /\ "names_list" \in BodySlots(req)
    /\ IsValidObj("names_list", req.val["names_list"])
    /\ req.val["names_list"].val["type"] = JStr("names_list")
\* the names of a stored row
StoredNames(row) == row["names_list_data"].val.val["names"]

C18_NamesSequence ==
    /\ (Saved(last) /\ PostsNames(last.req)) =>
         /\ last.id \in DOMAIN store =>
              /\ store[last.id]["names_list_type"] = JStr("names_list")
              /\ StoredNames(store[last.id]) = last.req.val["names_list"].val["names"]
         /\ last.status \in {200, 201} =>
              last.body.val["names_list"].val["names"]
                = last.req.val["names_list"].val["names"]
    /\ (/\ last.op = "GET"
        /\ last.id \in DOMAIN store
        /\ store[last.id]["names_list_type"] = JStr("names_list")) =>
         /\ last.status = 200
         /\ last.body.val["names_list"].val["names"] = StoredNames(store[last.id])

\* a GET has returned a sequence of names in which a name occurs twice
C18_Witness ==
    /\ last.op = "GET" /\ last.status = 200
    /\ last.body.val["names_list"] # PyNone
    /\ last.body.val["names_list"].val["type"] = JStr("names_list")
    /\ LET names == last.body.val["names_list"].val["names"].val IN
       /\ Len(names) = 3
       /\ names[1] = names[3]
       /\ names[1] # names[2]

(***************************************************************************)
(* C19.  Status enumeration: a POST or PUT whose term_sheet_status is not  *)
(* one of Yes, Partial, No, N/A, Not stated in Term Sheet is rejected with *)
(* 422, and in every reachable state the status of each stored record is   *)
(* one of these five values or null.                                       *)
(***************************************************************************)
\* the body gives a status outside the enumeration
BadStatus(req) ==
    /\ req.kind = "obj"
    /\ "term_sheet_status" \in DOMAIN req.val
    /\ req.val["term_sheet_status"] # PyNone
    /\ req.val["term_sheet_status"] \notin {JStr(t) : t \in TermSheetStatus}

C19_StatusEnumeration ==
    /\ (last.op \in {"POST", "PUT"} /\ BadStatus(last.req)) =>
         /\ last.status = 422
         /\ last.op = "PUT" => RowAt(store, last.id) = last.before
    /\ \A id \in DOMAIN store :
         store[id]["term_sheet_status"] \in {PyNone} \cup {JStr(t) : t \in TermSheetStatus}

\* a PUT with a status outside the enumeration has been rejected, the record it
\* names holding a status of the enumeration
C19_Witness ==
    /\ last.op = "PUT" /\ last.status = 422
    /\ BadStatus(last.req)
    /\ last.id \in DOMAIN store
    /\ store[last.id]["term_sheet_status"] = JStr("Yes")

(***************************************************************************)
(* C20.  Read-after-write: when a POST or PUT has responded with an object *)
(* for an id, a GET of that id served next, no write between, returns the  *)
(* same id, the same four scalars and the same five slots as the object.   *)
(***************************************************************************)
\* the answer of a GET of id served in the current state
GetNow(id) ==
    IF Truthy(get_or_none(store, id))
    THEN Respond(200, get_or_none(store, id))
    ELSE Plain(404, "not_found")

C20_ReadAfterWrite ==
    (Saved(last) /\ last.status \in {200, 201}) =>
      /\ GetNow(last.id).status = 200
      /\ \A k \in {"id"} \cup ScalarFields \cup SlotSet :
           GetNow(last.id).body.val[k] = last.body.val[k]

(***************************************************************************)
(* C21.  PUT is a full replace of the scalars: a PUT of a valid body to a  *)
(* stored record succeeds, and after it each of boolean_value,             *)
(* term_sheet_status, numeric_value and date_value, stored and returned,   *)
(* is the body's value, null when the body omits it; false and 0 are kept  *)
(* as false and 0.                                                         *)
(***************************************************************************)
\* the value of a scalar on the wire: the body's, null when it is left out
WireScalar(req, k) == IF k \in DOMAIN req.val THEN req.val[k] ELSE PyNone

C21_FullReplaceScalars ==
    (Saved(last) /\ last.op = "PUT" /\ last.id \in DOMAIN store) =>
      /\ \A k \in ScalarFields : store[last.id][k] = ExpectedScalar(last.req, k)
      /\ last.status = 200
      /\ \A k \in ScalarFields : last.body.val[k] = WireScalar(last.req, k)

(***************************************************************************)
(* C22.  The CRUD endpoints are reachable at /financial_data/ of the       *)
(* application: a POST of a valid body to /financial_data/ is dispatched   *)
(* to the create handler and answers 201.                                  *)
(***************************************************************************)
C22_EndpointPath ==
    (/\ last.method = "POST"
     /\ last.path = <<"financial_data", "">>
     /\ last.req \in AllBodies
     /\ Validate(last.req).ok) =>
      /\ last.op = "POST"
      /\ last.status = 201

(***************************************************************************)
(* C23.  A request rejected by validation changes nothing: the step that   *)
(* answers 422 to a POST creates no record and hands out no id, and the    *)
(* step that answers 422 to a PUT leaves every field of every stored       *)
(* record (scalars, slots, updated_at) as it was.                          *)
(***************************************************************************)
C23_RejectedChangesNothing ==
    [][(last = NoResponse /\ last'.status = 422) =>
         /\ store' = store
         /\ nextId' = nextId
         /\ hs' = hs]_vars

\* a PUT whose slot object is invalid has been rejected, the record it names
\* stored and as it was
C23_Witness ==
    /\ last.op = "PUT" /\ last.status = 422
    /\ ~BadStatus(last.req)
    /\ "boolean_value" \in DOMAIN last.req.val
    /\ last.id \in DOMAIN store
    /\ store[last.id]["boolean_value"] # last.req.val["boolean_value"]
    /\ RowAt(store, last.id) = last.before

Untagged(req) ==
    {slot \in BodySlots(req) :
       req.val[slot].kind = "obj" /\ "type" \notin DOMAIN req.val[slot].val}

C25_NoInventedTag ==
    last.op \in {"POST", "PUT"} =>
      /\ Untagged(last.req) # {} => last.status = 422
      /\ (Saved(last) /\ last.id \in DOMAIN store) =>
           \A slot \in BodySlots(last.req) :
             /\ "type" \in DOMAIN last.req.val[slot].val
             /\ store[last.id][TypeCol(slot)] = last.req.val[slot].val["type"]

(***************************************************************************)
(* C26.  Wrong scalar type is rejected: a POST or PUT with a slot object   *)
(* in which a float field holds a non-number, a string field or an element *)
(* of names a non-string, or a nested-object field a non-object, answers   *)
(* 422 and stores nothing.                                                 *)
(***************************************************************************)
\* the slots of the body whose object has a field of the wrong type
WrongTyped(req) ==
    {slot \in BodySlots(req) :
       HasOwnTag(slot, req.val[slot]) /\ WrongType(slot, req.val[slot])}

C26_WrongTypeRejected ==
    (last.op \in {"POST", "PUT"} /\ WrongTyped(last.req) # {}) =>
      /\ last.status = 422
      /\ last.op = "PUT" => RowAt(store, last.id) = last.before

(***************************************************************************)
(* C27.  In every reachable state, the state between the insert and the    *)
(* save of a create included, each slot of each stored record has a null   *)
(* tag exactly when it has a null payload; hence to_dict never reads a     *)
(* field from a null payload under a data-carrying tag.                    *)
(***************************************************************************)
C27_TagIffPayload ==
    \A id \in DOMAIN store :
      \A slot \in SlotSet :
        /\ store[id][TypeCol(slot)] = PyNone <=> store[id][DataCol(slot)] = PyNone
        /\ (/\ store[id][TypeCol(slot)] # PyNone
            /\ ProjectedFields(slot, store[id][TypeCol(slot)].val) # {}) =>
             HasGet(ObjectOf(store[id]).val[DataCol(slot)])

\* a record holds a marker variant, stored with the empty payload, and a slot a
\* PUT has cleared
C27_Witness ==
    /\ Saved(last) /\ last.op = "PUT" /\ last.id \in DOMAIN store
    /\ \E slot \in SlotSet :
         /\ store[last.id][TypeCol(slot)] # PyNone
         /\ store[last.id][DataCol(slot)] = DbJson(JObj(EmptyDict))
    /\ \E slot \in SlotSet :
         /\ SlotUnset(store[last.id], slot)
         /\ last.before.val[TypeCol(slot)] # PyNone

(***************************************************************************)
(* C28.  The create handler and the update handler ingest identically:     *)
(* for every valid body, the scalars and the (tag, payload) of every slot  *)
(* that POST stores are those that PUT of the same body stores on an       *)
(* existing record.                                                        *)
(***************************************************************************)
\* the columns a body decides
IngestCols == ScalarFields \cup TypeCols \cup DataCols
\* the row the create handler stores for a body, and the row the update handler
\* stores for it on the record loaded from row
StoredByCreate(body) ==
    RowOf(create_assign(NewFinancialData(create_kwargs(Validate(body).v)),
                        Validate(body).v))
StoredByUpdate(row, body) == RowOf(update_assign(ObjectOf(row), Validate(body).v))

C28_SameIngest ==
    (Saved(last) /\ last.id \in DOMAIN store) =>
      \A c \in IngestCols :
        /\ store[last.id][c] = StoredByCreate(last.req)[c]
        /\ last.before # PyNone =>
             store[last.id][c] = StoredByUpdate(last.before.val, last.req)[c]

\* a PUT of a body with all five slots has saved over a record that held
\* something else
C28_Witness ==
    /\ Saved(last) /\ last.op = "PUT" /\ last.id \in DOMAIN store
    /\ BodySlots(last.req) = SlotSet
    /\ \E c \in IngestCols : last.before.val[c] # store[last.id][c]
    /\ \A c \in IngestCols : store[last.id][c] = StoredByCreate(last.req)[c]

(***************************************************************************)
(* C29.  A PUT that responds 200 has been persisted: when its save step    *)
(* has completed, the record of that id is stored and equals the response  *)
(* in all scalars and slots, under every interleaving with a DELETE of the *)
(* same id between the handler's lookup and its save.                      *)
(***************************************************************************)
C29_PutPersisted ==
    (last.op = "PUT" /\ last.status = 200) =>
      /\ last.id \in DOMAIN store
      /\ \A k \in ScalarFields \cup SlotSet :
           Respond(200, ObjectOf(store[last.id])).body.val[k] = last.body.val[k]

====
